---------------------------- MODULE Spec2Model ----------------------------
(***************************************************************************)
(* A model of jqEye 1.02 (Source/jqeye.js): the four clamp functions of    *)
(* the geometry engine and the tracking session that a call of             *)
(* $.fn.jqEye binds to each selected element.                              *)
(*                                                                         *)
(* Every number of the program is a JavaScript Number, an IEEE-754         *)
(* binary64 value.  The model keeps that arithmetic: a finite Number is    *)
(* (-1)^s * m * 2^e with m an odd natural number of at most 53 bits (or    *)
(* 0), and each operation rounds its exact result to the nearest such      *)
(* value, ties to even, with overflow to Infinity, gradual underflow, NaN  *)
(* and signed zeros.  Mantissas exceed TLC's integers, so a natural number *)
(* is a little-endian sequence of limbs in base 2^15.                      *)
(***************************************************************************)
EXTENDS Integers, Sequences, FiniteSets, TLC

-----------------------------------------------------------------------------
(* Natural numbers of any size: little-endian limbs, no high zero limb.    *)

LimbBits == 15   \* bits of a limb
Base == 2^LimbBits

Min(i, j) == IF i <= j THEN i ELSE j
Max(i, j) == IF i >= j THEN i ELSE j

RECURSIVE Pow2(_)
Pow2(n) == IF n = 0 THEN 1 ELSE 2 * Pow2(n - 1)

\* the natural number n of the model
RECURSIVE BOfNatR(_)
BOfNatR(n) == IF n = 0 THEN <<>> ELSE <<n % Base>> \o BOfNatR(n \div Base)

RECURSIVE BNorm(_)
BNorm(a) ==
  IF a = <<>> THEN a
  ELSE IF a[Len(a)] = 0 THEN BNorm(SubSeq(a, 1, Len(a) - 1)) ELSE a

BLimb(a, i) == IF i <= Len(a) THEN a[i] ELSE 0

RECURSIVE BAddR(_, _, _, _)
BAddR(a, b, i, c) ==
  IF i > Len(a) /\ i > Len(b)
  THEN (IF c = 0 THEN <<>> ELSE <<c>>)
  ELSE LET t == BLimb(a, i) + BLimb(b, i) + c
       IN  <<t % Base>> \o BAddR(a, b, i + 1, t \div Base)

BAdd(a, b) == BAddR(a, b, 1, 0)

\* a - b for a >= b
RECURSIVE BSubR(_, _, _, _)
BSubR(a, b, i, c) ==
  IF i > Len(a) THEN <<>>
  ELSE LET t == a[i] - BLimb(b, i) - c
       IN  IF t < 0 THEN <<t + Base>> \o BSubR(a, b, i + 1, 1)
           ELSE <<t>> \o BSubR(a, b, i + 1, 0)

BSub(a, b) == BNorm(BSubR(a, b, 1, 0))

RECURSIVE BCmpR(_, _, _)
BCmpR(a, b, i) ==
  IF i = 0 THEN 0
  ELSE IF a[i] > b[i] THEN 1
  ELSE IF a[i] < b[i] THEN -1
  ELSE BCmpR(a, b, i - 1)

\* -1, 0, 1 as a < b, a = b, a > b
BCmp(a, b) ==
  IF Len(a) > Len(b) THEN 1
  ELSE IF Len(a) < Len(b) THEN -1
  ELSE BCmpR(a, b, Len(a))

\* a * d + c for one limb d and a carry c
RECURSIVE BMulLimbR(_, _, _, _)
BMulLimbR(a, d, i, c) ==
  IF i > Len(a) THEN (IF c = 0 THEN <<>> ELSE <<c>>)
  ELSE LET t == a[i] * d + c
       IN  <<t % Base>> \o BMulLimbR(a, d, i + 1, t \div Base)

Zeros(n) == [i \in 1..n |-> 0]

RECURSIVE BMulR(_, _, _)
BMulR(a, b, i) ==
  IF i > Len(b) THEN <<>>
  ELSE BAdd(Zeros(i - 1) \o BMulLimbR(a, b[i], 1, 0), BMulR(a, b, i + 1))

BMul(a, b) == IF a = <<>> \/ b = <<>> THEN <<>> ELSE BNorm(BMulR(a, b, 1))

\* a * 2^n
BShl(a, n) ==
  IF a = <<>> THEN a
  ELSE Zeros(n \div LimbBits) \o BMulLimbR(a, Pow2(n % LimbBits), 1, 0)

\* floor(a / 2^n)
BShr(a, n) ==
  LET k == n \div LimbBits
      r == n % LimbBits
      p == Pow2(r)
      q == Pow2(LimbBits - r)
  IN  IF k >= Len(a) THEN <<>>
      ELSE BNorm([i \in 1..(Len(a) - k) |->
                    (a[i + k] \div p) + (BLimb(a, i + k + 1) % p) * q])

RECURSIVE BitLen(_)
BitLen(n) == IF n = 0 THEN 0 ELSE 1 + BitLen(n \div 2)

BBitLen(a) == IF a = <<>> THEN 0 ELSE LimbBits * (Len(a) - 1) + BitLen(a[Len(a)])

\* bit i of a, bit 0 the lowest
BBit(a, i) == (BLimb(a, (i \div LimbBits) + 1) \div Pow2(i % LimbBits)) % 2

\* whether the n low bits of a are all 0
BLowZero(a, n) ==
  /\ \A i \in 1..(n \div LimbBits) : BLimb(a, i) = 0
  /\ BLimb(a, (n \div LimbBits) + 1) % Pow2(n % LimbBits) = 0

RECURSIVE TrailingZeros(_)
TrailingZeros(n) == IF n % 2 = 1 THEN 0 ELSE 1 + TrailingZeros(n \div 2)

RECURSIVE BZeroLimbs(_, _)
BZeroLimbs(a, i) == IF a[i] # 0 THEN 0 ELSE 1 + BZeroLimbs(a, i + 1)

\* the number of low zero bits of a # 0
BTrailingZeros(a) ==
  LET k == BZeroLimbs(a, 1) IN LimbBits * k + TrailingZeros(a[k + 1])

\* The digit q = floor(r / b) and the remainder r - q * b, for r < b * Base
\* and b of n limbs with its high limb at least Base / 2: the quotient of the
\* two high limbs of r by the high limb of b is q, q + 1 or q + 2.
RECURSIVE BDigitFix(_, _, _, _)
BDigitFix(r, b, q, p) ==
  IF BCmp(p, r) > 0 THEN BDigitFix(r, b, q - 1, BSub(p, b))
  ELSE [q |-> q, r |-> BSub(r, p)]

BDigit(r, b) ==
  LET n    == Len(b)
      qhat == Min(Base - 1, (BLimb(r, n + 1) * Base + BLimb(r, n)) \div b[n])
  IN  BDigitFix(r, b, qhat, BNorm(BMulLimbR(b, qhat, 1, 0)))

\* Long division in base 2^15, from limb i of a downwards, r the remainder so
\* far: the quotient's limbs from that of limb i down to the lowest, in
\* little-endian order, and the final remainder.
RECURSIVE BDivR(_, _, _, _)
RECURSIVE BDivStep(_, _, _, _)
BDivCons(q, rest) == [q |-> rest.q \o <<q>>, r |-> rest.r]

\* the step for limb i, d its digit and remainder
BDivStep(a, b, i, d) ==
  IF Len(d.r) >= 0    \* has TLC evaluate d before it goes on
  THEN BDivCons(d.q, BDivR(a, b, i - 1, d.r))
  ELSE d

BDivR(a, b, i, r) ==
  IF i = 0 THEN [q |-> <<>>, r |-> r]
  ELSE BDivStep(a, b, i, BDigit(BNorm(<<a[i]>> \o r), b))

\* d, the result of dividing numbers scaled by 2^sh, scaled back
BDivOut(d, sh) == [q |-> BNorm(d.q), r |-> BShr(d.r, sh)]

\* a / b for b with its high limb at least Base / 2
BDivNormal(a, b, sh) == BDivOut(BDivR(a, b, Len(a), <<>>), sh)

\* the shift that brings the high limb of b to at least Base / 2
BDivShift(b) == LimbBits - BitLen(b[Len(b)])

\* quotient and remainder of a / b, b # 0
BDivMod(a, b) == BDivNormal(BShl(a, BDivShift(b)), BShl(b, BDivShift(b)), BDivShift(b))

\* floor(sqrt(v)) for an integer 0 <= v < 2^30, by Newton's iteration from
\* above
RECURSIVE ISqrtR(_, _)
ISqrtR(v, x) ==
  LET y == (x + v \div x) \div 2
  IN  IF y >= x THEN x ELSE ISqrtR(v, y)

ISqrt(v) == IF v = 0 THEN 0 ELSE ISqrtR(v, Base)

\* Newton's iteration for the square root of n from x >= floor(sqrt(n)); y is
\* the iterate after x
RECURSIVE BSqrtNewton(_, _)
RECURSIVE BSqrtStep(_, _, _)
BSqrtStep(n, x, y) == IF BCmp(y, x) >= 0 THEN x ELSE BSqrtNewton(n, y)

BSqrtNewton(n, x) == BSqrtStep(n, x, BShr(BAdd(x, BDivMod(n, x).q), 1))

\* the even number of low bits of n below its (up to) 30 high bits
BSqrtShift(n) == IF BBitLen(n) <= 30 THEN 0 ELSE 2 * ((BBitLen(n) - 29) \div 2)

\* the root of top, the high bits of n, rounded up, and scaled back
BSqrtGuess(top, sh) ==
  BShl(BOfNatR(ISqrt(BLimb(top, 1) + BLimb(top, 2) * Base) + 1), sh \div 2)

BSqrtOut(n, root) == [q |-> root, r |-> BSub(n, BMul(root, root))]

\* floor(sqrt(n)) and the remainder n - root^2; the iteration starts from
\* the root of the (up to) 30 high bits of n, rounded up
BSqrtRem(n) ==
  IF n = <<>> THEN [q |-> <<>>, r |-> <<>>]
  ELSE BSqrtOut(n, BSqrtNewton(n, BSqrtGuess(BShr(n, BSqrtShift(n)),
                                             BSqrtShift(n))))

BOfNat(n) == BOfNatR(n)

-----------------------------------------------------------------------------
(* Exact dyadic rationals (-1)^s * m * 2^e, m any natural number: the      *)
(* exact results that the Number operations round, and the arithmetic in   *)
(* which a geometric property of a computed point is evaluated.            *)

Q(s, m, e) == [s |-> s, m |-> m, e |-> e]


QSign(a) == IF a.m = <<>> THEN 0 ELSE 1 - 2 * a.s

\* compares the magnitudes of a and b, both non-zero
QMagCmp(a, b) ==
  LET ta == BBitLen(a.m) + a.e
      tb == BBitLen(b.m) + b.e
      e  == Min(a.e, b.e)
  IN  IF ta > tb THEN 1
      ELSE IF ta < tb THEN -1
      ELSE BCmp(BShl(a.m, a.e - e), BShl(b.m, b.e - e))

\* -1, 0, 1 as a < b, a = b, a > b
QCmp(a, b) ==
  LET sa == QSign(a)
      sb == QSign(b)
  IN  IF sa # sb THEN (IF sa > sb THEN 1 ELSE -1)
      ELSE IF sa = 0 THEN 0
      ELSE sa * QMagCmp(a, b)

QNeg(a) == Q(1 - a.s, a.m, a.e)
QAbs(a) == Q(0, a.m, a.e)

\* (-1)^sa * x * 2^e + (-1)^sb * y * 2^e for x, y # 0; an exact zero sum is +0
QAddAligned(sa, x, sb, y, e) ==
  IF sa = sb THEN Q(sa, BAdd(x, y), e)
  ELSE IF BCmp(x, y) = 0 THEN Q(0, <<>>, 0)
  ELSE IF BCmp(x, y) > 0 THEN Q(sa, BSub(x, y), e)
  ELSE Q(sb, BSub(y, x), e)

\* a + b
QAdd(a, b) ==
  IF a.m = <<>> THEN b
  ELSE IF b.m = <<>> THEN a
  ELSE QAddAligned(a.s, BShl(a.m, a.e - Min(a.e, b.e)),
                   b.s, BShl(b.m, b.e - Min(a.e, b.e)), Min(a.e, b.e))

QSub(a, b) == QAdd(a, QNeg(b))

QMul(a, b) == Q((a.s + b.s) % 2, BMul(a.m, b.m), a.e + b.e)

QLe(a, b) == QCmp(a, b) <= 0
QLt(a, b) == QCmp(a, b) < 0
QEq(a, b) == QCmp(a, b) = 0

-----------------------------------------------------------------------------
(* JavaScript Numbers (IEEE-754 binary64).                                 *)

MantBits == 53      \* bits of a significand
MinExp   == -1074   \* exponent of the smallest subnormal, 2^-1074
MaxExp   == 1024    \* every finite Number is below 2^1024

NaN     == [k |-> "nan", s |-> 0, m |-> <<>>, e |-> 0]
Inf(s)  == [k |-> "inf", s |-> s, m |-> <<>>, e |-> 0]
Zero(s) == [k |-> "num", s |-> s, m |-> <<>>, e |-> 0]

IsNaN(a)    == a.k = "nan"
IsInf(a)    == a.k = "inf"
IsFinite(a) == a.k = "num"
IsZero(a)   == a.k = "num" /\ a.m = <<>>

\* the finite Number (-1)^s * m * 2^e, m # 0, in its unique form: m odd
Canon(s, m, e) ==
  LET z == BTrailingZeros(m)
  IN  [k |-> "num", s |-> s, m |-> BShr(m, z), e |-> e + z]

\* whether m, cut sh bits from its low end to keep, is rounded up: the bit
\* below the cut is 1 and a bit follows it or keep is odd
RoundUp(m, sh, keep, sticky) ==
  /\ BBit(m, sh - 1) = 1
  /\ (sticky \/ ~BLowZero(m, sh - 1) \/ BBit(keep, 0) = 1)

RoundOut(s, k2, q) ==
  IF k2 = <<>> THEN Zero(s)
  ELSE IF BBitLen(k2) + q > MaxExp THEN Inf(s)
  ELSE Canon(s, k2, q)

RoundKept(s, keep, q, up) ==
  RoundOut(s, IF up THEN BAdd(keep, <<1>>) ELSE keep, q)

\* q is the exponent of the last place of the result
RoundAt(s, m, e, sticky, q) ==
  IF e >= q
  THEN (IF BBitLen(m) + e > MaxExp THEN Inf(s) ELSE Canon(s, m, e))
  ELSE RoundKept(s, BShr(m, q - e), q,
                 RoundUp(m, q - e, BShr(m, q - e), sticky))

\* The Number nearest to (-1)^s * m * 2^e, or, when sticky, to a value
\* strictly between that and (-1)^s * (m + 1) * 2^e (then m has at least
\* MantBits + 2 bits): round to nearest, ties to even.
Round(s, m, e, sticky) ==
  IF m = <<>> THEN Zero(s)
  ELSE RoundAt(s, m, e, sticky, Max(BBitLen(m) + e - MantBits, MinExp))

\* the exact value of a finite Number
QOf(a) == Q(a.s, a.m, a.e)

\* the Number of an integer of the model
FInt(n) ==
  IF n = 0 THEN Zero(0)
  ELSE IF n < 0 THEN Canon(1, BOfNat(-n), 0)
  ELSE Canon(0, BOfNat(n), 0)

\* the Number n * 2^e for an integer n
FScaled(n, e) == IF n = 0 THEN Zero(0) ELSE [FInt(n) EXCEPT !.e = @ + e]

\* unary minus
FNeg(a) == IF IsNaN(a) THEN a ELSE [a EXCEPT !.s = 1 - @]

\* Math.abs
FAbs(a) == IF IsNaN(a) THEN a ELSE [a EXCEPT !.s = 0]

\* the exponent above the leading bit of a non-zero finite Number
FTop(a) == BBitLen(a.m) + a.e

\* hi + lo where lo is below a quarter of the last place of the sum: the sum
\* lies strictly between two neighbours of MantBits + 3 bits, hi's
\* significand shifted by pad bits being one of them
FAddPadded(hi, lo, pad) ==
  Round(hi.s,
        IF hi.s = lo.s THEN BShl(hi.m, pad) ELSE BSub(BShl(hi.m, pad), <<1>>),
        hi.e - pad, TRUE)

FAddFar(hi, lo) == FAddPadded(hi, lo, MantBits + 3 - BBitLen(hi.m))

\* the Number nearest to the exact value r
RoundQ(r) == Round(r.s, r.m, r.e, FALSE)

\* a + b
FAdd(a, b) ==
  IF IsNaN(a) \/ IsNaN(b) THEN NaN
  ELSE IF IsInf(a) THEN (IF IsInf(b) /\ b.s # a.s THEN NaN ELSE a)
  ELSE IF IsInf(b) THEN b
  ELSE IF IsZero(a) /\ IsZero(b) THEN Zero(IF a.s = b.s THEN a.s ELSE 0)
  ELSE IF ~IsZero(a) /\ ~IsZero(b) /\ FTop(a) - FTop(b) > MantBits + 3
       THEN FAddFar(a, b)
  ELSE IF ~IsZero(a) /\ ~IsZero(b) /\ FTop(b) - FTop(a) > MantBits + 3
       THEN FAddFar(b, a)
  ELSE RoundQ(QAdd(QOf(a), QOf(b)))

\* a - b
FSub(a, b) == FAdd(a, FNeg(b))

\* the sign of a product or quotient
SignOf(a, b) == (a.s + b.s) % 2

\* a * b
FMul(a, b) ==
  IF IsNaN(a) \/ IsNaN(b) THEN NaN
  ELSE IF IsInf(a) \/ IsInf(b)
       THEN (IF IsZero(a) \/ IsZero(b) THEN NaN ELSE Inf(SignOf(a, b)))
  ELSE IF IsZero(a) \/ IsZero(b) THEN Zero(SignOf(a, b))
  ELSE Round(SignOf(a, b), BMul(a.m, b.m), a.e + b.e, FALSE)

\* the quotient dm of significands, of exponent e, rounded
FDivOut(s, dm, e) == Round(s, dm.q, e, dm.r # <<>>)

\* a's significand is scaled by 2^k for a quotient of at least MantBits + 2
\* bits
FDivScaled(a, b, k) ==
  FDivOut(SignOf(a, b), BDivMod(BShl(a.m, k), b.m), a.e - b.e - k)

\* a / b
FDiv(a, b) ==
  IF IsNaN(a) \/ IsNaN(b) THEN NaN
  ELSE IF IsInf(a) THEN (IF IsInf(b) THEN NaN ELSE Inf(SignOf(a, b)))
  ELSE IF IsInf(b) THEN Zero(SignOf(a, b))
  ELSE IF IsZero(b) THEN (IF IsZero(a) THEN NaN ELSE Inf(SignOf(a, b)))
  ELSE IF IsZero(a) THEN Zero(SignOf(a, b))
  ELSE IF b.m = <<1>> THEN Round(SignOf(a, b), a.m, a.e - b.e, FALSE)
  ELSE FDivScaled(a, b, Max(0, MantBits + 3 + BBitLen(b.m) - BBitLen(a.m)))

\* the root sr of a significand, of exponent e, rounded
FSqrtOut(sr, e) == Round(0, sr.q, e, sr.r # <<>>)

\* m * 2^e with e even; m is scaled by 2^(2k) for a root of at least
\* MantBits + 2 bits
FSqrtScaled(m, e, k) == FSqrtOut(BSqrtRem(BShl(m, 2 * k)), (e - 2 * k) \div 2)

FSqrtEven(m, e) ==
  FSqrtScaled(m, e, Max(0, (2 * MantBits + 5 - BBitLen(m)) \div 2))

\* Math.sqrt
FSqrt(a) ==
  IF IsNaN(a) THEN NaN
  ELSE IF IsZero(a) THEN a
  ELSE IF a.s = 1 THEN NaN
  ELSE IF IsInf(a) THEN a
  ELSE IF a.e % 2 = 1 THEN FSqrtEven(BShl(a.m, 1), a.e - 1)
  ELSE FSqrtEven(a.m, a.e)

\* a > b, a < b, a === b, a !== b
FGt(a, b) ==
  /\ ~IsNaN(a) /\ ~IsNaN(b)
  /\ IF IsInf(a) THEN a.s = 0 /\ a # b
     ELSE IF IsInf(b) THEN b.s = 1
     ELSE QCmp(QOf(a), QOf(b)) > 0
FLt(a, b) == FGt(b, a)
FEq(a, b) ==
  /\ ~IsNaN(a) /\ ~IsNaN(b)
  /\ IF IsInf(a) \/ IsInf(b) THEN a = b
     ELSE QCmp(QOf(a), QOf(b)) = 0
FNe(a, b) == ~FEq(a, b)

-----------------------------------------------------------------------------
(* The geometry engine: the private functions of $.fn.jqEye.               *)

Two == FInt(2)
One == FInt(1)

Point(x, y) == [x |-> x, y |-> y]

\* One axis of rectangle_position: v against the faces at half and -half.
rectangle_axis(v, half) ==
  IF FLt(v, FNeg(half)) THEN FNeg(half)
  ELSE IF FGt(v, half) THEN half
  ELSE v

\* Variant: the faces taken at width and height, not at their halves.
rectangle_positionFullExtent(x, y, width, height) ==
  Point(rectangle_axis(x, width), rectangle_axis(y, height))

rectangle_position(x, y, width, height) ==
  Point(rectangle_axis(x, FDiv(width, Two)),
        rectangle_axis(y, FDiv(height, Two)))

\* (v > 0)? mag : -mag
SignedAs(v, mag) == IF FGt(v, Zero(0)) THEN mag ELSE FNeg(mag)

\* res.y = Math.abs(m * res.x); res.y = (y > 0)? res.y : -res.y
OnRay(y, m, res_x) == Point(res_x, SignedAs(y, FAbs(FMul(m, res_x))))

\* the x !== 0 branch of circle_position, m the slope y/x
circle_ray(x, y, r, m) ==
  OnRay(y, m, SignedAs(x, FSqrt(FDiv(FMul(r, r), FAdd(FMul(m, m), One)))))

\* Variant: the test compares the squared distance to r, not to r*r.
circle_positionRadiusTest(x, y, r) ==
  IF FGt(FAdd(FMul(x, x), FMul(y, y)), r)
  THEN IF FNe(x, Zero(0))
       THEN circle_ray(x, y, r, FDiv(y, x))
       ELSE Point(x, SignedAs(y, r))
  ELSE Point(x, y)

circle_position(x, y, r) ==
  IF FGt(FAdd(FMul(x, x), FMul(y, y)), FMul(r, r))
  THEN IF FNe(x, Zero(0))
       THEN circle_ray(x, y, r, FDiv(y, x))
       ELSE Point(x, SignedAs(y, r))
  ELSE Point(x, y)

\* 1/(a*a) + (m*m)/(b*b)
ellipse_sum(a, b, m) ==
  FAdd(FDiv(One, FMul(a, a)), FDiv(FMul(m, m), FMul(b, b)))

\* the x !== 0 branch of ellipse_position, m the slope y/x
ellipse_ray(x, y, a, b, m) ==
  OnRay(y, m, SignedAs(x, FSqrt(FDiv(One, ellipse_sum(a, b, m)))))

\* (x*x)/(a*a) + (y*y)/(b*b) > 1
ellipse_outside(x, y, a, b) ==
  FGt(FAdd(FDiv(FMul(x, x), FMul(a, a)), FDiv(FMul(y, y), FMul(b, b))), One)

\* Variant: on the y axis the point goes to the end of the other semi-axis.
ellipse_positionAxisSwap(x, y, a, b) ==
  IF ellipse_outside(x, y, a, b)
  THEN IF FNe(x, Zero(0))
       THEN ellipse_ray(x, y, a, b, FDiv(y, x))
       ELSE Point(x, SignedAs(y, a))
  ELSE Point(x, y)

ellipse_position(x, y, a, b) ==
  IF ellipse_outside(x, y, a, b)
  THEN IF FNe(x, Zero(0))
       THEN ellipse_ray(x, y, a, b, FDiv(y, x))
       ELSE Point(x, SignedAs(y, b))
  ELSE Point(x, y)

\* the corner branch of rounded_rectangle_position, cir the circle's point
rounded_corner(x, y, limit_x, limit_y, cir) ==
  Point(IF FGt(x, Zero(0)) THEN FAdd(cir.x, limit_x)
                           ELSE FNeg(FAdd(cir.x, limit_x)),
        IF FGt(y, Zero(0)) THEN FAdd(cir.y, limit_y)
                           ELSE FNeg(FAdd(cir.y, limit_y)))

\* the circle's point for a point near a corner
rounded_circle(x, y, limit_x, limit_y, radius) ==
  circle_position(FSub(FAbs(x), limit_x), FSub(FAbs(y), limit_y), radius)

\* rounded_rectangle_position once limit_x and limit_y are known
rounded_limits(x, y, width, height, radius, limit_x, limit_y) ==
  IF FGt(FAbs(x), limit_x) /\ FGt(FAbs(y), limit_y)
  THEN rounded_corner(x, y, limit_x, limit_y,
                      rounded_circle(x, y, limit_x, limit_y, radius))
  ELSE rectangle_position(x, y, width, height)

\* Variant of rounded_limits: a point beyond either limit is near a corner.
rounded_limitsEither(x, y, width, height, radius, limit_x, limit_y) ==
  IF FGt(FAbs(x), limit_x) \/ FGt(FAbs(y), limit_y)
  THEN rounded_corner(x, y, limit_x, limit_y,
                      rounded_circle(x, y, limit_x, limit_y, radius))
  ELSE rectangle_position(x, y, width, height)

\* Variant: a point beyond either limit is taken to be near a corner.
rounded_rectangle_positionEitherLimit(x, y, width, height, radius) ==
  rounded_limitsEither(x, y, width, height, radius,
                       FSub(FDiv(width, Two), radius),
                       FSub(FDiv(height, Two), radius))

rounded_rectangle_position(x, y, width, height, radius) ==
  rounded_limits(x, y, width, height, radius,
                 FSub(FDiv(width, Two), radius),
                 FSub(FDiv(height, Two), radius))

\* The divisors that a call of circle_position evaluates, in the order of
\* evaluation: the slope's x and m*m + 1, both in the x !== 0 branch.
circle_ray_divisors(x, m) == <<x, FAdd(FMul(m, m), One)>>

circle_divisors(x, y, r) ==
  IF FGt(FAdd(FMul(x, x), FMul(y, y)), FMul(r, r)) /\ FNe(x, Zero(0))
  THEN circle_ray_divisors(x, FDiv(y, x))
  ELSE <<>>

\* The divisors that a call of ellipse_position evaluates: a*a and b*b in the
\* test, then x, a*a, b*b and the sum 1/(a*a) + (m*m)/(b*b) in the x !== 0
\* branch.
ellipse_divisors(x, y, a, b) ==
  <<FMul(a, a), FMul(b, b)>> \o
  IF ellipse_outside(x, y, a, b) /\ FNe(x, Zero(0))
  THEN <<x, FMul(a, a), FMul(b, b), ellipse_sum(a, b, FDiv(y, x))>>
  ELSE <<>>

\* rectangle_position divides width and height by 2, whatever the point.
rectangle_divisors(x, y, width, height) == <<Two, Two>>

\* the divisors after the limits of rounded_rectangle_position
rounded_limits_divisors(x, y, width, height, radius, limit_x, limit_y) ==
  IF FGt(FAbs(x), limit_x) /\ FGt(FAbs(y), limit_y)
  THEN circle_divisors(FSub(FAbs(x), limit_x), FSub(FAbs(y), limit_y), radius)
  ELSE rectangle_divisors(x, y, width, height)

\* rounded_rectangle_position divides width and height by 2 for the limits,
\* then as circle_position or rectangle_position does.
rounded_rectangle_divisors(x, y, width, height, radius) ==
  <<Two, Two>> \o
  rounded_limits_divisors(x, y, width, height, radius,
                          FSub(FDiv(width, Two), radius),
                          FSub(FDiv(height, Two), radius))

-----------------------------------------------------------------------------
(* State.                                                                  *)

VARIABLES
  call,       \* the call of an engine function under check, or NoCall
  ret,        \* the point it returned, or NoRet while it has not returned
  divs,       \* the divisors it evaluated
  layout,     \* per element: its style position, its frame's origin, its size
  scroll,     \* the window's scroll offset
  sessions,   \* the mousemove handlers bound to the document, in binding
              \* order, each with the settings and the centre it closes over
  queue,      \* the mousemove events that arrived and are not yet dispatched
  cur,        \* the event being dispatched, or NoEvent
  idx,        \* the handler that the dispatch runs next
  arrived,    \* the number of events that arrived
  dispatched, \* the number of events whose dispatch began
  captured,   \* history, per session: the centre read from the layout at bind
  since,      \* history, per session: the events dispatched before its bind
  wlog,       \* history, per session: the events it wrote a position for
  wrote,      \* history, per session: its last run, inputs and position written
  writer      \* history, per element: the session that wrote its position last

engineVars  == <<call, ret, divs>>
sessionVars == <<layout, scroll, sessions, queue, cur, idx, arrived,
                 dispatched, captured, since, wlog, wrote, writer>>
vars == <<call, ret, divs, layout, scroll, sessions, queue, cur, idx, arrived,
          dispatched, captured, since, wlog, wrote, writer>>

NoCall == [fn |-> "none"]
NoNum  == [k |-> "none", s |-> 0, m |-> <<>>, e |-> 0]
NoRet  == [x |-> NoNum, y |-> NoNum]

-----------------------------------------------------------------------------
(* The tracking session: $.fn.jqEye and the mousemove handler it binds.    *)

Elems == {1, 2}

NoEvent == [id |-> 0, clientX |-> NoNum, clientY |-> NoNum]
NoWrite == [id |-> 0]

\* The settings' defaults.
Defaults ==
  [shape |-> "circle", radius |-> FInt(20), width |-> FInt(40),
   height |-> FInt(40)]

\* $.extend(defaults, options): the properties of options win.
Extend(defaults, options) ==
  [f \in DOMAIN defaults \cup DOMAIN options |->
     IF f \in DOMAIN options THEN options[f] ELSE defaults[f]]

\* jQuery's position(): the element's upper left corner relative to its
\* frame.  The static position of a pupil is the origin of its frame, so its
\* style's left and top are its position.
position(lay) == [left |-> lay.left, top |-> lay.top]

\* jQuery's offset(): the upper left corner relative to the document.
offset(lay) == [left |-> FAdd(lay.ox, lay.left), top |-> FAdd(lay.oy, lay.top)]

\* The eye's centre as $.fn.jqEye reads it from the element's layout, relative
\* to the frame and to the document.
Centre(lay) ==
  [center_x     |-> FAdd(position(lay).left, FDiv(lay.width, Two)),
   center_y     |-> FAdd(position(lay).top, FDiv(lay.height, Two)),
   abs_center_x |-> FAdd(offset(lay).left, FDiv(lay.width, Two)),
   abs_center_y |-> FAdd(offset(lay).top, FDiv(lay.height, Two))]

\* The closure that the each callback makes for one element.
Session(el, settings, lay) ==
  [el |-> el, settings |-> settings, centre |-> Centre(lay)]

\* Variant: a shape that is none of the four is clamped as the default circle.
ShapeDispatchDefault(settings, p) ==
  IF settings.shape = "rectangle"
  THEN rectangle_position(p.x, p.y, settings.width, settings.height)
  ELSE IF settings.shape = "ellipse"
  THEN ellipse_position(p.x, p.y, FDiv(settings.width, Two),
                        FDiv(settings.height, Two))
  ELSE IF settings.shape = "rounded rectangle"
  THEN rounded_rectangle_position(p.x, p.y, settings.width, settings.height,
                                  settings.radius)
  ELSE circle_position(p.x, p.y, settings.radius)

\* The handler's four tests on settings.shape, each on the (pos_x, pos_y)
\* that the tests before it have left.
IfRectangle(settings, p) ==
  IF settings.shape = "rectangle"
  THEN rectangle_position(p.x, p.y, settings.width, settings.height)
  ELSE p

IfCircle(settings, p) ==
  IF settings.shape = "circle"
  THEN circle_position(p.x, p.y, settings.radius)
  ELSE p

IfEllipse(settings, p) ==
  IF settings.shape = "ellipse"
  THEN ellipse_position(p.x, p.y, FDiv(settings.width, Two),
                        FDiv(settings.height, Two))
  ELSE p

IfRounded(settings, p) ==
  IF settings.shape = "rounded rectangle"
  THEN rounded_rectangle_position(p.x, p.y, settings.width, settings.height,
                                  settings.radius)
  ELSE p

\* The point that the four tests leave in (pos_x, pos_y).
ShapeDispatch(settings, p) ==
  IfRounded(settings, IfEllipse(settings, IfCircle(settings,
                                                   IfRectangle(settings, p))))

\* Variant: the handler reads the centre from the layout again.
CentreRecomputed(s, lay) == Centre(lay)

\* The centre that a session's handler uses after it has run: the handler
\* assigns none of center_x, center_y, abs_center_x, abs_center_y.
CentreAfterEvent(s, lay) == s.centre

\* The point that ShapeDispatch leaves for the offset of e from a centre.
Clamped(centre, settings, e, scr) ==
  ShapeDispatch(settings,
                Point(FAdd(FSub(e.clientX, centre.abs_center_x), scr.left),
                      FAdd(FSub(e.clientY, centre.abs_center_y), scr.top)))

\* The position in the frame for the clamped point c: the pupil's centre at
\* c from the centre of the eye.
InFrame(centre, lay, c) ==
  [left |-> FSub(FAdd(c.x, centre.center_x), FDiv(lay.width, Two)),
   top  |-> FSub(FAdd(c.y, centre.center_y), FDiv(lay.height, Two))]

\* Variant of InFrame: the pupil's corner, not its centre, at c.
InFrameCorner(centre, lay, c) ==
  [left |-> FAdd(c.x, centre.center_x), top |-> FAdd(c.y, centre.center_y)]

\* Variant: the pupil's corner, not its centre, is put at the clamped point.
mousemoveCorner(s, e, scr, lay) ==
  <<InFrameCorner(s.centre, lay, Clamped(s.centre, s.settings, e, scr))>>

\* the write of position w unless the pupil is at w
Unless(lay, w) == IF w.left = lay.left /\ w.top = lay.top THEN <<>> ELSE <<w>>

\* Variant: no write when the pupil is already at the position.
mousemoveCoalesced(s, e, scr, lay) ==
  Unless(lay, InFrame(s.centre, lay, Clamped(s.centre, s.settings, e, scr)))

\* Variant: the centre is read from the pupil's layout at each event.
mousemoveFromLayout(s, e, scr, lay) ==
  <<InFrame(Centre(lay), lay, Clamped(Centre(lay), s.settings, e, scr))>>

\* The mousemove handler of session s on event e with the window scrolled by
\* scr and the pupil laid out as lay: the positions it passes to pupil.css,
\* in order.
mousemove(s, e, scr, lay) ==
  <<InFrame(s.centre, lay, Clamped(s.centre, s.settings, e, scr))>>

\* pupil.css({left: .., top: ..}) for each position of ws, in order.
RECURSIVE css(_, _)
css(lay, ws) ==
  IF ws = <<>> THEN lay
  ELSE css([lay EXCEPT !.left = Head(ws).left, !.top = Head(ws).top], Tail(ws))

\* Bounds of the session model.
MaxEvents  == 2   \* mousemove events that arrive
MaxChanges == 1   \* changes of the scroll offset or of a layout by the page

Num2(p) == [x |-> FInt(p[1]), y |-> FInt(p[2])]

\* The options of the call: none, those of the README for an ellipse, a
\* rectangle and a rounded rectangle, and a shape that is none of the four.
OptionSet ==
  { [f \in {} |-> 0],
    [shape |-> "ellipse", width |-> FInt(40), height |-> FInt(20)],
    [shape |-> "rectangle", width |-> FInt(40), height |-> FInt(20)],
    [shape |-> "rounded rectangle", width |-> FInt(40), height |-> FInt(40),
     radius |-> FInt(10)],
    [shape |-> "square"] }

\* The selections of the call, each in document order.
Selections == {<<1>>, <<1, 2>>}

\* Pointer positions (clientX, clientY).
Pointers == {Num2(<<170, 70>>), Num2(<<147, 97>>)}

\* The scroll offsets that the user scrolls the window to.
Scrolls == {[left |-> FInt(3), top |-> FInt(8)]}

\* The layouts of the two pupils when the page has loaded: a 10 x 10 pupil
\* whose centre is at (100, 50) in its frame and at (120, 70) in the
\* document, and a 7 x 5 pupil at (20, 20) in a frame with a 1 pixel border.
InitialLayout ==
  [el \in Elems |->
     IF el = 1
     THEN [left |-> FInt(95), top |-> FInt(45), ox |-> FInt(20), oy |-> FInt(20),
           width |-> FInt(10), height |-> FInt(10)]
     ELSE [left |-> FInt(20), top |-> FInt(20), ox |-> FInt(1), oy |-> FInt(1),
           width |-> FInt(7), height |-> FInt(5)]]

\* What other code of the page does to a pupil's layout: its frame moves, or
\* the pupil changes size.
Reflowed(lay) == [lay EXCEPT !.ox = FAdd(@, FInt(6)), !.oy = FAdd(@, FInt(-4))]
Resized(lay)  == [lay EXCEPT !.width = FAdd(@, FInt(4)), !.height = FAdd(@, FInt(1))]

Scroll0 == [left |-> FInt(0), top |-> FInt(0)]

\* The changes that the page has made so far.
Changes ==
  (IF scroll # Scroll0 THEN 1 ELSE 0)
  + Cardinality({el \in Elems : layout[el].ox # InitialLayout[el].ox})
  + Cardinality({el \in Elems : layout[el].width # InitialLayout[el].width})

InitSession ==
  /\ layout = InitialLayout
  /\ scroll = Scroll0
  /\ sessions = <<>>
  /\ queue = <<>>
  /\ cur = NoEvent
  /\ idx = 0
  /\ arrived = 0
  /\ dispatched = 0
  /\ captured = <<>>
  /\ since = <<>>
  /\ wlog = <<>>
  /\ wrote = <<>>
  /\ writer = [el \in Elems |-> 0]

Idle == cur = NoEvent

\* $(selection).jqEye(options): one session per selected element, in order.
\* The page makes one such call.
RECURSIVE NewSessions(_, _, _)
NewSessions(sel, settings, lays) ==
  IF sel = <<>> THEN <<>>
  ELSE <<Session(Head(sel), settings, lays[Head(sel)])>>
       \o NewSessions(Tail(sel), settings, lays)

Bind(sel, options) ==
  LET new == NewSessions(sel, Extend(Defaults, options), layout)
      n   == Len(sel)
  IN  /\ Idle
      /\ sessions = <<>>
      /\ sessions' = sessions \o new
      /\ captured' = captured \o [i \in 1..n |-> Centre(layout[sel[i]])]
      /\ since' = since \o [i \in 1..n |-> dispatched]
      /\ wlog' = wlog \o [i \in 1..n |-> <<>>]
      /\ wrote' = wrote \o [i \in 1..n |-> NoWrite]
      /\ UNCHANGED <<engineVars, layout, scroll, queue, cur, idx, arrived,
                     dispatched, writer>>

\* The pointer moves: the browser queues a mousemove event.
MouseMove(p) ==
  /\ arrived < MaxEvents
  /\ arrived' = arrived + 1
  /\ queue' = Append(queue, [id |-> arrived + 1, clientX |-> p.x, clientY |-> p.y])
  /\ UNCHANGED <<engineVars, layout, scroll, sessions, cur, idx, dispatched,
                 captured, since, wlog, wrote, writer>>

\* The browser takes the oldest event and starts to run the handlers bound
\* to the document, the first bound first.
Dispatch ==
  /\ Idle
  /\ queue # <<>>
  /\ dispatched' = dispatched + 1
  /\ queue' = Tail(queue)
  /\ IF sessions = <<>>
     THEN cur' = NoEvent /\ idx' = 0
     ELSE cur' = Head(queue) /\ idx' = 1
  /\ UNCHANGED <<engineVars, layout, scroll, sessions, arrived, captured,
                 since, wlog, wrote, writer>>

\* What a run of session i's handler leaves: ws are the positions it passed
\* to pupil.css for the pupil laid out as lay.
Ran(i, s, lay, ws) ==
  /\ layout' = [layout EXCEPT ![s.el] = css(lay, ws)]
  /\ sessions' = [sessions EXCEPT ![i].centre = CentreAfterEvent(s, lay)]
  /\ wlog' = [wlog EXCEPT ![i] = @ \o [k \in 1..Len(ws) |-> cur.id]]
  /\ wrote' = [wrote EXCEPT ![i] =
                 IF ws = <<>> THEN @
                 ELSE [id |-> cur.id, e |-> cur, scroll |-> scroll,
                       width |-> lay.width, height |-> lay.height,
                       left |-> ws[Len(ws)].left, top |-> ws[Len(ws)].top]]
  /\ writer' = IF ws = <<>> THEN writer ELSE [writer EXCEPT ![s.el] = i]

Run(i, s, lay) == Ran(i, s, lay, mousemove(s, cur, scroll, lay))

\* The handler of session idx runs on the event under dispatch.
Handler ==
  /\ ~Idle
  /\ Run(idx, sessions[idx], layout[sessions[idx].el])
  /\ IF idx = Len(sessions)
     THEN cur' = NoEvent /\ idx' = 0
     ELSE cur' = cur /\ idx' = idx + 1
  /\ UNCHANGED <<engineVars, scroll, queue, arrived, dispatched, captured, since>>

\* The user scrolls the window.
Scroll(scr) ==
  /\ Idle
  /\ Changes < MaxChanges
  /\ scroll = Scroll0
  /\ scroll' = scr
  /\ UNCHANGED <<engineVars, layout, sessions, queue, cur, idx, arrived,
                 dispatched, captured, since, wlog, wrote, writer>>

\* Other code of the page moves the frame of a pupil.
Reflow(el) ==
  /\ Idle
  /\ Changes < MaxChanges
  /\ layout[el].ox = InitialLayout[el].ox
  /\ layout' = [layout EXCEPT ![el] = Reflowed(@)]
  /\ UNCHANGED <<engineVars, scroll, sessions, queue, cur, idx, arrived,
                 dispatched, captured, since, wlog, wrote, writer>>

\* Other code of the page changes the size of a pupil.
Resize(el) ==
  /\ Idle
  /\ Changes < MaxChanges
  /\ layout[el].width = InitialLayout[el].width
  /\ layout' = [layout EXCEPT ![el] = Resized(@)]
  /\ UNCHANGED <<engineVars, scroll, sessions, queue, cur, idx, arrived,
                 dispatched, captured, since, wlog, wrote, writer>>

InitTracking == call = NoCall /\ ret = NoRet /\ divs = <<>> /\ InitSession

NextTracking ==
  \/ \E sel \in Selections, options \in OptionSet : Bind(sel, options)
  \/ \E p \in Pointers : MouseMove(p)
  \/ Dispatch
  \/ Handler
  \/ \E scr \in Scrolls : Scroll(scr)
  \/ Reflow(1)
  \/ Resize(1)

-----------------------------------------------------------------------------
(* The engine functions on bounded inputs: a point on a grid of half       *)
(* pixels around the centre, integer widths and heights, radii in half     *)
(* pixels, and the calls that the documentation gives as examples.         *)

MaxCoord == 6    \* rectangle, circle: |x|, |y| <= MaxCoord / 2
MaxSide  == 4    \* rectangle: width, height <= MaxSide
MaxRad   == 7    \* circle: r <= MaxRad / 2
MaxECoord == 5   \* ellipse: |x|, |y| <= MaxECoord / 2
MaxESide  == 5   \* ellipse: width, height <= MaxESide
MaxRCoord == 5   \* rounded rectangle: |x|, |y| <= MaxRCoord / 2
MaxRSide  == 3   \* rounded rectangle: width, height <= MaxRSide

HalfGrid(n) == {FScaled(i, -1) : i \in -n..n}
Sides(n)    == {FInt(i) : i \in 0..n}

RectangleCalls ==
  {[fn |-> "rectangle_position", x |-> x, y |-> y, width |-> w, height |-> h] :
     x \in HalfGrid(MaxCoord), y \in HalfGrid(MaxCoord),
     w \in Sides(MaxSide), h \in Sides(MaxSide)}
  \cup {[fn |-> "rectangle_position", x |-> FInt(50), y |-> FInt(10),
         width |-> FInt(40), height |-> FInt(40)]}

CircleCalls ==
  {[fn |-> "circle_position", x |-> x, y |-> y, r |-> FScaled(r, -1)] :
     x \in HalfGrid(MaxCoord), y \in HalfGrid(MaxCoord), r \in 0..MaxRad}
  \cup {[fn |-> "circle_position", x |-> FInt(p[1]), y |-> FInt(p[2]),
         r |-> FInt(20)] : p \in {<<30, 0>>, <<0, 0>>, <<30, 40>>, <<0, -25>>}}

\* the mousemove handler calls ellipse_position with width/2 and height/2
EllipseCalls ==
  {[fn |-> "ellipse_position", x |-> x, y |-> y,
    a |-> FDiv(w, Two), b |-> FDiv(h, Two)] :
     x \in HalfGrid(MaxECoord), y \in HalfGrid(MaxECoord),
     w \in Sides(MaxESide), h \in Sides(MaxESide)}
  \cup {[fn |-> "ellipse_position", x |-> FInt(p[1]), y |-> FInt(p[2]),
         a |-> FInt(20), b |-> FInt(10)] :
          p \in {<<0, 15>>, <<0, -15>>, <<30, 10>>, <<10, 5>>}}

RoundedCalls ==
  {[fn |-> "rounded_rectangle_position", x |-> x, y |-> y,
    width |-> FInt(w), height |-> FInt(h), radius |-> FScaled(r, -1)] :
     x \in HalfGrid(MaxRCoord), y \in HalfGrid(MaxRCoord),
     w \in 0..MaxRSide, h \in 0..MaxRSide, r \in 0..MaxRSide}
  \cup {[fn |-> "rounded_rectangle_position", x |-> FInt(p[1]),
         y |-> FInt(p[2]), width |-> FInt(40), height |-> FInt(40),
         radius |-> FInt(10)] :
          p \in {<<50, 50>>, <<-30, 17>>, <<15, 50>>, <<12, -13>>}}

\* the rounded rectangles of the stated domain: radius <= min(w/2, h/2)
RoundedDomain(c) ==
  /\ ~FGt(c.radius, FDiv(c.width, Two))
  /\ ~FGt(c.radius, FDiv(c.height, Two))

CallRectangle ==
  /\ call.fn = "rectangle_position" /\ ret = NoRet
  /\ ret' = rectangle_position(call.x, call.y, call.width, call.height)
  /\ divs' = rectangle_divisors(call.x, call.y, call.width, call.height)
  /\ UNCHANGED <<call, sessionVars>>

CallCircle ==
  /\ call.fn = "circle_position" /\ ret = NoRet
  /\ ret' = circle_position(call.x, call.y, call.r)
  /\ divs' = circle_divisors(call.x, call.y, call.r)
  /\ UNCHANGED <<call, sessionVars>>

CallEllipse ==
  /\ call.fn = "ellipse_position" /\ ret = NoRet
  /\ ret' = ellipse_position(call.x, call.y, call.a, call.b)
  /\ divs' = ellipse_divisors(call.x, call.y, call.a, call.b)
  /\ UNCHANGED <<call, sessionVars>>

CallRounded ==
  /\ call.fn = "rounded_rectangle_position" /\ ret = NoRet
  /\ ret' = rounded_rectangle_position(call.x, call.y, call.width,
                                       call.height, call.radius)
  /\ divs' = rounded_rectangle_divisors(call.x, call.y, call.width,
                                        call.height, call.radius)
  /\ UNCHANGED <<call, sessionVars>>

InitEngine(calls) == call \in calls /\ ret = NoRet /\ divs = <<>> /\ InitSession

InitRectangle == InitEngine(RectangleCalls)
InitCircle    == InitEngine(CircleCalls)
InitEllipse   == InitEngine(EllipseCalls)
InitRounded   == InitEngine({c \in RoundedCalls : RoundedDomain(c)})

SpecRectangle == InitRectangle /\ [][CallRectangle]_vars
SpecCircle    == InitCircle /\ [][CallCircle]_vars
SpecEllipse   == InitEllipse /\ [][CallEllipse]_vars
SpecRounded   == InitRounded /\ [][CallRounded]_vars

\* every call above, the rounded rectangles of any radius included
InitEngines ==
  InitEngine(RectangleCalls \cup CircleCalls \cup EllipseCalls \cup RoundedCalls)
NextEngines == CallRectangle \/ CallCircle \/ CallEllipse \/ CallRounded
SpecEngines == InitEngines /\ [][NextEngines]_vars

Returned == ret # NoRet

-----------------------------------------------------------------------------
(* Properties of the engine, evaluated in exact arithmetic on the Numbers  *)
(* passed and returned.                                                    *)

QHalf(a)   == Q(a.s, a.m, a.e - 1)
QSq(a)     == QMul(a, a)
QMin(a, b) == IF QLe(a, b) THEN a ELSE b
QMax(a, b) == IF QLe(a, b) THEN b ELSE a
QClamp(v, lo, hi) == QMin(QMax(v, lo), hi)
QPow2(e)   == Q(0, <<1>>, e)
QZero      == Q(0, <<>>, 0)

\* |a - b| <= tol
QWithin(a, b, tol) == QLe(QAbs(QSub(a, b)), tol)

CircleOutside == QLt(QSq(QOf(call.r)), QAdd(QSq(QOf(call.x)), QSq(QOf(call.y))))
RetNorm2      == QAdd(QSq(QOf(ret.x)), QSq(QOf(ret.y)))

EllipseProper == FGt(call.a, Zero(0)) /\ FGt(call.b, Zero(0))

\* x^2 * b^2 + y^2 * a^2, which is a^2 * b^2 * ((x/a)^2 + (y/b)^2)
EllipseForm(p) ==
  QAdd(QMul(QSq(QOf(p.x)), QSq(QOf(call.b))),
       QMul(QSq(QOf(p.y)), QSq(QOf(call.a))))
EllipseOne     == QMul(QSq(QOf(call.a)), QSq(QOf(call.b)))
EllipseOutside == QLt(EllipseOne, EllipseForm(call))

EllipseOnAxis ==
  EllipseOutside /\ IsZero(call.x) =>
    ret = Point(call.x, IF FGt(call.y, Zero(0)) THEN call.b ELSE FNeg(call.b))

Sign(x) == IF FGt(x, Zero(0)) THEN One ELSE FNeg(One)

RoundedCorner ==
  /\ FGt(FAbs(call.x), FSub(FDiv(call.width, Two), call.radius))
  /\ FGt(FAbs(call.y), FSub(FDiv(call.height, Two), call.radius))

C9_Total ==
  Returned =>
    /\ IsFinite(ret.x) /\ IsFinite(ret.y)
    /\ \A i \in 1..Len(divs) : ~IsZero(divs[i])

-----------------------------------------------------------------------------
(* Properties of the tracking session.                                     *)

HasRun(i) == wrote[i].id # 0

\* The clamp of a session's shape: the engine function of that shape, and
\* nothing for a shape that is none of the four.
ShapeClamp(settings, p) ==
  CASE settings.shape = "rectangle" ->
         rectangle_position(p.x, p.y, settings.width, settings.height)
    [] settings.shape = "circle" ->
         circle_position(p.x, p.y, settings.radius)
    [] settings.shape = "ellipse" ->
         ellipse_position(p.x, p.y, FDiv(settings.width, Two),
                          FDiv(settings.height, Two))
    [] settings.shape = "rounded rectangle" ->
         rounded_rectangle_position(p.x, p.y, settings.width, settings.height,
                                    settings.radius)
    [] OTHER -> p

\* The offset of the pointer of session i's last run from the anchor captured
\* at bind: (pointerX - anchorViewportX + scrollLeft, likewise for y).
PointerOffset(i) ==
  Point(FAdd(FSub(wrote[i].e.clientX, captured[i].abs_center_x),
             wrote[i].scroll.left),
        FAdd(FSub(wrote[i].e.clientY, captured[i].abs_center_y),
             wrote[i].scroll.top))

\* (cx + anchorFrameX - pupilWidth/2, cy + anchorFrameY - pupilHeight/2)
FramePosition(i, c) ==
  [left |-> FSub(FAdd(c.x, captured[i].center_x), FDiv(wrote[i].width, Two)),
   top  |-> FSub(FAdd(c.y, captured[i].center_y), FDiv(wrote[i].height, Two))]

Written(i) == [left |-> wrote[i].left, top |-> wrote[i].top]

\* The centre of the pupil at the position session i wrote, relative to the
\* anchor, as an exact value.
PupilCentre(i) ==
  [x |-> QSub(QAdd(QOf(wrote[i].left), QHalf(QOf(wrote[i].width))),
              QOf(captured[i].center_x)),
   y |-> QSub(QAdd(QOf(wrote[i].top), QHalf(QOf(wrote[i].height))),
              QOf(captured[i].center_y))]

QScaled(v, tol) == QAdd(v, QMul(v, tol))

\* p is within the eye shape of settings enlarged by the factor 1 + tol; a
\* shape that is none of the four bounds nothing.
InShape(settings, p, tol) ==
  LET hw == QHalf(QOf(settings.width))
      hh == QHalf(QOf(settings.height))
      r  == QOf(settings.radius)
      ax == QAbs(p.x)
      ay == QAbs(p.y)
      lx == QSub(hw, r)
      ly == QSub(hh, r)
  IN  CASE settings.shape = "rectangle" ->
             QLe(ax, QScaled(hw, tol)) /\ QLe(ay, QScaled(hh, tol))
        [] settings.shape = "circle" ->
             QLe(QAdd(QSq(p.x), QSq(p.y)), QScaled(QSq(r), tol))
        [] settings.shape = "ellipse" ->
             QLe(QAdd(QMul(QSq(p.x), QSq(hh)), QMul(QSq(p.y), QSq(hw))),
                 QScaled(QMul(QSq(hw), QSq(hh)), tol))
        [] settings.shape = "rounded rectangle" ->
             /\ QLe(ax, QScaled(hw, tol)) /\ QLe(ay, QScaled(hh, tol))
             /\ (QLt(lx, ax) /\ QLt(ly, ay) =>
                   QLe(QAdd(QSq(QSub(ax, lx)), QSq(QSub(ay, ly))),
                       QScaled(QSq(r), tol)))
        [] OTHER -> TRUE

\* the README's example: default settings, anchor (100, 50) in the frame and
\* (120, 70) in the document, a 10 x 10 pupil, pointer (170, 70), no scroll
Example(i) ==
  /\ HasRun(i)
  /\ sessions[i].settings = Defaults
  /\ captured[i] = [center_x |-> FInt(100), center_y |-> FInt(50),
                    abs_center_x |-> FInt(120), abs_center_y |-> FInt(70)]
  /\ wrote[i].width = FInt(10) /\ wrote[i].height = FInt(10)
  /\ wrote[i].e.clientX = FInt(170) /\ wrote[i].e.clientY = FInt(70)
  /\ wrote[i].scroll = Scroll0

Pipeline(i) ==
  /\ Written(i) = FramePosition(i, ShapeClamp(sessions[i].settings,
                                              PointerOffset(i)))
  /\ (Example(i) => Written(i) = [left |-> FInt(115), top |-> FInt(45)])

Known == {"rectangle", "circle", "ellipse", "rounded rectangle"}

\* C6: a session whose shape is none of the four handles every event, and
\* writes (pointerX - anchorViewportX + scrollLeft + anchorFrameX -
\* pupilWidth/2, likewise for y), a finite position that radius, width and
\* height do not bound.
C6_UnknownShapePassThrough ==
  \A i \in 1..Len(sessions) :
    HasRun(i) /\ sessions[i].settings.shape \notin Known =>
      /\ Written(i) = FramePosition(i, PointerOffset(i))
      /\ IsFinite(wrote[i].left) /\ IsFinite(wrote[i].top)

\* A session of shape "square" has put the pupil's centre 50 pixels from the
\* anchor, beyond the radius of 20 and the half width of 20.
C6_Witness ==
  \E i \in 1..Len(sessions) :
    /\ HasRun(i) /\ sessions[i].settings.shape = "square"
    /\ captured[i].center_x = FInt(100)
    /\ wrote[i].width = FInt(10)
    /\ wrote[i].left = FInt(145)

\* C7: the anchor of a session is the one captured from the layout at bind,
\* whatever events, scrolls and moves of the element have happened since.
C7_AnchorImmutable ==
  \A i \in 1..Len(sessions) : sessions[i].centre = captured[i]

\* A session has run after its element's frame has moved, and its own write
\* has moved the element: the layout no longer gives the captured centre.
C7_Witness ==
  \E i \in 1..Len(sessions) :
    LET el == sessions[i].el
    IN  /\ HasRun(i)
        /\ layout[el].ox # InitialLayout[el].ox
        /\ layout[el].left # InitialLayout[el].left
        /\ Centre(layout[el]) # captured[i]

\* the events a + 1, ..., b in order
Ids(a, b) == [k \in 1..(b - a) |-> a + k]

\* C8: the events are dispatched in arrival order, one at a time, and none
\* is dropped; each session has written exactly once for each event
\* dispatched since its bind, in order, up to the event under dispatch if
\* its handler has not run yet.
C8_OneWritePerEvent ==
  /\ arrived = dispatched + Len(queue)
  /\ \A k \in 1..Len(queue) : queue[k].id = dispatched + k
  /\ (~Idle => cur.id = dispatched /\ idx \in 1..Len(sessions))
  /\ \A i \in 1..Len(sessions) :
       wlog[i] = Ids(since[i], IF ~Idle /\ idx <= i THEN dispatched - 1
                                                   ELSE dispatched)

\* Two sessions have each written for a burst of two events that leave the
\* pointer where it was.
C8_Witness ==
  /\ Idle /\ Len(sessions) = 2
  /\ wlog[1] = <<1, 2>> /\ wlog[2] = <<1, 2>>
  /\ wrote[1].id = 2 /\ wrote[1].left = layout[sessions[1].el].left

\* The position that event e alone, with the window scrolled by scr and the
\* pupil of size width x height, produces right after the bind of session i.
RightAfterBind(i, e, scr, width, height) ==
  LET el == sessions[i].el
      s0 == [el |-> el, settings |-> sessions[i].settings,
             centre |-> captured[i]]
      l0 == [InitialLayout[el] EXCEPT !.width = width, !.height = height]
  IN  mousemove(s0, e, scr, l0)[1]

\* C10: once a session has run, its pupil is at the position that the last
\* event alone produces right after bind, whatever events came before.
C10_LastEventOnly ==
  \A i \in 1..Len(sessions) :
    HasRun(i) /\ writer[sessions[i].el] = i =>
      LET fresh == RightAfterBind(i, wrote[i].e, wrote[i].scroll,
                                  wrote[i].width, wrote[i].height)
          lay == layout[sessions[i].el]
      IN  lay.left = fresh.left /\ lay.top = fresh.top

\* A session has run on two events with different pointers: the first write
\* moved the pupil, the second came after.
C10_Witness ==
  \E i \in 1..Len(sessions) :
    /\ wlog[i] = <<1, 2>>
    /\ wrote[i].e.clientX = FInt(170)
    /\ layout[sessions[i].el].left # InitialLayout[sessions[i].el].left
    /\ sessions[i].settings.shape = "circle"

Init == InitTracking
Next == NextTracking
Spec == Init /\ [][Next]_vars
=============================================================================
